---- MODULE Spec2Model ----
(***************************************************************************)
(* duck-ci: the HTTP handlers that create projects and jobs, the store     *)
(* (projects, jobs, logs tables) and DuckCI.Run, the goroutine that clones *)
(* the repository, loads duck-ci.yml and runs each step in a container.    *)
(* One action per store write or external call of Run, so that concurrent  *)
(* runs interleave exactly where the goroutines can.                       *)
(***************************************************************************)
EXTENDS Integers, Sequences, FiniteSets, TLC

\* ---- bounds of the model ----
MaxProjects == 1    \* POST /projects requests served
MaxJobs == 2        \* POST /task requests served, runs executing concurrently
ConcSteps == 1      \* steps in a duck-ci.yml, when runs execute concurrently
ConcLines == 1      \* output lines a container prints, when runs execute concurrently
MaxSteps == 2       \* steps in a duck-ci.yml, when one run executes
MaxLines == 2       \* output lines a container prints, when one run executes

\* ---- status codes of jobs.status ----
Pending == -1       \* createJob inserts -1
Failed == -1        \* Run: updateJobStatus(job, -1)
Succeeded == 0      \* Run: updateJobStatus(job, 0)
ExitFail == 3       \* a non-zero container exit code

JobIds == 1..MaxJobs
ProjectIds == 1..(MaxProjects + 1)   \* form values of "project"; the last has no row

\* Step values a manifest can carry (yaml fields name, image, runs).
BuildStep == [name |-> "build", image |-> "alpine", runs |-> "echo hi"]
BareStep == [name |-> "lint", image |-> "", runs |-> ""]
StepPool == { BuildStep, BareStep }

\* The two explorations: concurrent runs of short pipelines, one run of a longer one.
Conc == [jobs |-> MaxJobs, steps |-> ConcSteps, lines |-> ConcLines, pool |-> { BuildStep }]
Solo == [jobs |-> 1, steps |-> MaxSteps, lines |-> MaxLines, pool |-> StepPool]

RECURSIVE SeqsUpTo(_, _)
SeqsUpTo(S, n) ==
  IF n = 0 THEN { <<>> }
  ELSE LET shorter == SeqsUpTo(S, n - 1)
       IN  shorter \cup { Append(s, x) : s \in { t \in shorter : Len(t) = n - 1 }, x \in S }

\* Config values yaml.Unmarshal can produce: any list of at most b.steps steps of
\* b.pool, the empty one included.
Configs(b) == SeqsUpTo(b.pool, b.steps)

VARIABLES
  alive,       \* the serving process runs (log.Fatal ends it)
  fatal,       \* id of the job whose run called log.Fatal, 0 if none
  projects,    \* ids of the rows of table projects
  jobs,        \* table jobs: row id -> [project_id, status]
  logs,        \* table logs in rowid order: [job_id, log]
  images,      \* image tags present in the container engine
  containers,  \* containers existing in the engine, as <<job, step>>
  pc,          \* per job: where its Run goroutine stands ("idle": none dispatched)
  config,      \* per job: Run's config.Steps
  i,           \* per job: Run's loop index, 1-based
  read,        \* per job: lines streamLogs has scanned from the current container
  statusCode,  \* per job: runStep's statusCode
  err,         \* per job: the error Run is handling ("" if none)
  status,      \* per job: the status Run is about to write
  dispatched,  \* per job: number of `go ci.Run(&job)` executed
  statusLog,   \* per job: every value written to jobs.status, in write order
  trace        \* per job: the calls Run has made, in order

vars == << alive, fatal, projects, jobs, logs, images, containers, pc, config, i,
           read, statusCode, err, status, dispatched, statusLog, trace >>

storeVars == << projects, jobs, logs, statusLog >>
engineVars == << images, containers >>
runVars == << pc, config, i, read, statusCode, err, status, trace >>

\* ---- Storage ----

\* The query of Storage.getJobById over tables js (jobs) and ps (projects): the join
\* has no row, and Scan returns sql.ErrNoRows, when the job's project is missing.
JobQuery(js, ps, id) ==
  IF id \in DOMAIN js /\ js[id].project_id \in ps
  THEN [found |-> TRUE, status |-> js[id].status]
  ELSE [found |-> FALSE, status |-> 0]

\* Storage.getJobById on the current tables.
getJobById(id) == JobQuery(jobs, projects, id)

\* Storage.getLogsByJobId without its where clause: every row of logs.
getLogsByJobId_NoWhere(jobId) ==
  [k \in 1..Len(logs) |-> logs[k].log]

\* Storage.getLogsByJobId: select ... from logs where job_id = ?
getLogsByJobId(jobId) ==
  LET rows == SelectSeq(logs, LAMBDA r : r.job_id = jobId)
  IN  [k \in 1..Len(rows) |-> rows[k].log]

\* Storage.inertLog: insert into logs (job_id, log)
inertLog(jobId, t) ==
  logs' = Append(logs, [job_id |-> jobId, log |-> t])

\* Storage.updateJobStatus without its where clause: every row of jobs is updated.
updateJobStatus_NoWhere(jobId, s) ==
  /\ jobs' = [k \in DOMAIN jobs |-> [jobs[k] EXCEPT !.status = s]]
  /\ statusLog' = [k \in JobIds |->
                     IF k \in DOMAIN jobs THEN Append(statusLog[k], s) ELSE statusLog[k]]

\* Storage.updateJobStatus: update jobs set status = ? where id = ?
updateJobStatus(jobId, s) ==
  /\ jobs' = [jobs EXCEPT ![jobId].status = s]
  /\ statusLog' = [statusLog EXCEPT ![jobId] = Append(@, s)]

\* log.Fatal(err) in Storage.inertLog / Storage.updateJobStatus: os.Exit(1).
Fatal(j) ==
  /\ alive' = FALSE
  /\ fatal' = j
  /\ UNCHANGED << storeVars, engineVars, runVars, dispatched >>

Init ==
  /\ alive = TRUE
  /\ fatal = 0
  /\ projects = {}
  /\ jobs = << >>
  /\ logs = << >>
  /\ images = {}
  /\ containers = {}
  /\ pc = [j \in JobIds |-> "idle"]
  /\ config = [j \in JobIds |-> << >>]
  /\ i = [j \in JobIds |-> 0]
  /\ read = [j \in JobIds |-> 0]
  /\ statusCode = [j \in JobIds |-> 0]
  /\ err = [j \in JobIds |-> ""]
  /\ status = [j \in JobIds |-> 0]
  /\ dispatched = [j \in JobIds |-> 0]
  /\ statusLog = [j \in JobIds |-> << >>]
  /\ trace = [j \in JobIds |-> << >>]

\* ---- handlers ----

\* ProjectView, POST /projects: Storage.createProject.
ProjectView ==
  /\ alive
  /\ Cardinality(projects) < MaxProjects
  /\ projects' = projects \cup { Cardinality(projects) + 1 }
  /\ UNCHANGED << alive, fatal, jobs, logs, statusLog, engineVars, runVars, dispatched >>

\* TaskView, POST /task: Storage.createJob (insert, then getJobById), then `go ci.Run(&job)`
\* unless createJob returned an error.
TaskView(projectId, b) ==
  /\ alive
  /\ Len(jobs) < b.jobs
  /\ LET id == Len(jobs) + 1
     IN  /\ jobs' = Append(jobs, [project_id |-> projectId, status |-> Pending])
         /\ statusLog' = [statusLog EXCEPT ![id] = Append(@, Pending)]
         /\ IF JobQuery(jobs', projects, id).found
            THEN /\ pc' = [pc EXCEPT ![id] = "Run"]
                 /\ dispatched' = [dispatched EXCEPT ![id] = @ + 1]
            ELSE UNCHANGED << pc, dispatched >>
  /\ UNCHANGED << alive, fatal, projects, logs, engineVars, config, i, read,
                  statusCode, err, status, trace >>

\* ---- DuckCI.Run ----

\* A log line: its text, the step number it names (0 if none) and its argument (the
\* error of a failure line, the number of an output line within its container).
Line(text, n, arg) == [text |-> text, n |-> n, arg |-> arg]
NoLine == Line("", 0, "")

\* What ContainerWait delivered on statusCh: the exit code.
Exit(code) == Line("exit", code, "")

\* One call made by Run: the operation, its number (step index, or the status
\* written) and the line pushed (for ContainerWait the exit code delivered, NoLine
\* for the other calls that push nothing).
Event(op, n, line) == [op |-> op, n |-> n, line |-> line]
Call(j, op) == Event(op, i[j], NoLine)

Emit(j, evs) == trace' = [trace EXCEPT ![j] = @ \o evs]

\* DuckCI.PushLog(job, s): one insert into logs.
PushLog(j, l) == inertLog(j, l)

Goto(j, label) == pc' = [pc EXCEPT ![j] = label]

\* Run, first statement: PushLog("Starting job for project: ...").
RunStart(j) ==
  /\ alive /\ pc[j] = "Run"
  /\ \E ok \in BOOLEAN :
       IF ok
       THEN LET l == Line("Starting job", 0, "")
            IN  /\ PushLog(j, l)
                /\ Emit(j, << Event("PushLog", 0, l) >>)
                /\ Goto(j, "cloneRepository")
                /\ UNCHANGED << alive, fatal, projects, jobs, statusLog, engineVars,
                                config, i, read, statusCode, err, status, dispatched >>
       ELSE Fatal(j)

\* cloneRepository whose caller drops the error and goes on to loadConfig.
cloneRepository_ErrorDropped(j) ==
  /\ alive /\ pc[j] = "cloneRepository"
  /\ \E res \in { "ok", "error", "fatal" } :
       CASE res = "ok" ->
              LET l == Line("git output", 0, "")
              IN  /\ PushLog(j, l)
                  /\ Emit(j, << Call(j, "git clone"), Event("PushLog", 0, l) >>)
                  /\ Goto(j, "loadConfig")
                  /\ UNCHANGED << alive, fatal, projects, jobs, statusLog, engineVars,
                                  config, i, read, statusCode, err, status, dispatched >>
         [] res = "error" ->
              /\ Emit(j, << Call(j, "git clone") >>)
              /\ err' = [err EXCEPT ![j] = "clone"]
              /\ Goto(j, "loadConfig")
              /\ UNCHANGED << alive, fatal, storeVars, engineVars, config, i, read,
                              statusCode, status, dispatched >>
         [] res = "fatal" -> Fatal(j)

\* DuckCI.cloneRepository: git clone; on success its output is pushed to the log.
cloneRepository(j) ==
  /\ alive /\ pc[j] = "cloneRepository"
  /\ \E res \in { "ok", "error", "fatal" } :
       CASE res = "ok" ->
              LET l == Line("git output", 0, "")
              IN  /\ PushLog(j, l)
                  /\ Emit(j, << Call(j, "git clone"), Event("PushLog", 0, l) >>)
                  /\ Goto(j, "loadConfig")
                  /\ UNCHANGED << alive, fatal, projects, jobs, statusLog, engineVars,
                                  config, i, read, statusCode, err, status, dispatched >>
         [] res = "error" ->
              /\ Emit(j, << Call(j, "git clone") >>)
              /\ err' = [err EXCEPT ![j] = "clone"]
              /\ Goto(j, "error")
              /\ UNCHANGED << alive, fatal, storeVars, engineVars, config, i, read,
                              statusCode, status, dispatched >>
         [] res = "fatal" -> Fatal(j)

\* DuckCI.loadConfig: read duck-ci.yml and yaml.Unmarshal it; then Run creates the
\* docker client.
loadConfig(j, b) ==
  /\ alive /\ pc[j] = "loadConfig"
  /\ \/ \E c \in Configs(b) :
          /\ config' = [config EXCEPT ![j] = c]
          /\ Goto(j, "NewClient")
          /\ UNCHANGED err
     \/ \E e \in { "read config", "parse config" } :
          /\ err' = [err EXCEPT ![j] = e]
          /\ Goto(j, "error")
          /\ UNCHANGED config
  /\ Emit(j, << Call(j, "loadConfig") >>)
  /\ UNCHANGED << alive, fatal, storeVars, engineVars, i, read, statusCode, status,
                  dispatched >>

\* Run: docker.NewClientWithOpts(docker.FromEnv).
NewClient(j) ==
  /\ alive /\ pc[j] = "NewClient"
  /\ \E ok \in BOOLEAN :
       IF ok
       THEN /\ i' = [i EXCEPT ![j] = 1]
            /\ Goto(j, "loop")
            /\ UNCHANGED err
       ELSE /\ err' = [err EXCEPT ![j] = "docker client"]
            /\ Goto(j, "error")
            /\ UNCHANGED i
  /\ Emit(j, << Call(j, "NewClient") >>)
  /\ UNCHANGED << alive, fatal, storeVars, engineVars, config, read, statusCode,
                  status, dispatched >>

\* Run, loop head with a step left: PushLog("Starting step i"), then runStep.
StartStep(j) ==
  /\ alive /\ pc[j] = "loop" /\ i[j] <= Len(config[j])
  /\ \E ok \in BOOLEAN :
       IF ok
       THEN LET l == Line("Starting step", i[j], config[j][i[j]].name)
            IN  /\ PushLog(j, l)
                /\ Emit(j, << Event("PushLog", i[j], l) >>)
                /\ Goto(j, "ensureImage")
                /\ UNCHANGED << alive, fatal, projects, jobs, statusLog, engineVars,
                                config, i, read, statusCode, err, status, dispatched >>
       ELSE Fatal(j)

\* ensureImage that pulls a second time when the pull failed.
ensureImage_PullRetried(j) ==
  /\ alive /\ pc[j] = "ensureImage"
  /\ LET image == config[j][i[j]].image
     IN  \/ /\ Emit(j, << Call(j, "ImageList") >>)
            /\ err' = [err EXCEPT ![j] = "ensure image"]
            /\ Goto(j, "error")
            /\ UNCHANGED images
         \/ /\ image \in images
            /\ Emit(j, << Call(j, "ImageList") >>)
            /\ Goto(j, "createAndStartContainer")
            /\ UNCHANGED << images, err >>
         \/ /\ image \notin images
            /\ \E ok \in BOOLEAN :
                 IF ok
                 THEN /\ Emit(j, << Call(j, "ImageList"), Call(j, "ImagePull") >>)
                      /\ images' = images \cup { image }
                      /\ Goto(j, "createAndStartContainer")
                      /\ UNCHANGED err
                 ELSE /\ Emit(j, << Call(j, "ImageList"), Call(j, "ImagePull"),
                                    Call(j, "ImagePull") >>)
                      /\ err' = [err EXCEPT ![j] = "ensure image"]
                      /\ Goto(j, "error")
                      /\ UNCHANGED images
  /\ UNCHANGED << alive, fatal, storeVars, containers, config, i, read, statusCode,
                  status, dispatched >>

\* DuckCI.ensureImage: ImageList, then ImagePull (drained) when no tag matches.
ensureImage(j) ==
  /\ alive /\ pc[j] = "ensureImage"
  /\ LET image == config[j][i[j]].image
     IN  \/ \* ImageList fails
            /\ Emit(j, << Call(j, "ImageList") >>)
            /\ err' = [err EXCEPT ![j] = "ensure image"]
            /\ Goto(j, "error")
            /\ UNCHANGED images
         \/ \* a tag matches
            /\ image \in images
            /\ Emit(j, << Call(j, "ImageList") >>)
            /\ Goto(j, "createAndStartContainer")
            /\ UNCHANGED << images, err >>
         \/ \* no tag matches: pull
            /\ image \notin images
            /\ Emit(j, << Call(j, "ImageList"), Call(j, "ImagePull") >>)
            /\ \E ok \in BOOLEAN :
                 IF ok
                 THEN /\ images' = images \cup { image }
                      /\ Goto(j, "createAndStartContainer")
                      /\ UNCHANGED err
                 ELSE /\ err' = [err EXCEPT ![j] = "ensure image"]
                      /\ Goto(j, "error")
                      /\ UNCHANGED images
  /\ UNCHANGED << alive, fatal, storeVars, containers, config, i, read, statusCode,
                  status, dispatched >>

\* DuckCI.createAndStartContainer: ContainerCreate, then ContainerStart; either
\* error is returned with an empty container id.
createAndStartContainer(j) ==
  /\ alive /\ pc[j] = "createAndStartContainer"
  /\ \E res \in { "ok", "create error", "start error" } :
       CASE res = "ok" ->
              /\ containers' = containers \cup { << j, i[j] >> }
              /\ Emit(j, << Call(j, "ContainerCreate"), Call(j, "ContainerStart") >>)
              /\ Goto(j, "streamLogs")
              /\ UNCHANGED err
         [] res = "create error" ->
              /\ Emit(j, << Call(j, "ContainerCreate") >>)
              /\ err' = [err EXCEPT ![j] = "create and start container"]
              /\ Goto(j, "error")
              /\ UNCHANGED containers
         [] res = "start error" ->
              /\ containers' = containers \cup { << j, i[j] >> }
              /\ Emit(j, << Call(j, "ContainerCreate"), Call(j, "ContainerStart") >>)
              /\ err' = [err EXCEPT ![j] = "create and start container"]
              /\ Goto(j, "error")
  /\ UNCHANGED << alive, fatal, storeVars, images, config, i, read, statusCode,
                  status, dispatched >>

\* streamLogs entered only after the container was waited for: the output is
\* read once the container has exited.
streamLogs_AfterWait(j) ==
  /\ alive /\ pc[j] = "streamLogs"
  /\ \E ok \in BOOLEAN :
       IF ok
       THEN /\ read' = [read EXCEPT ![j] = 0]
            /\ Goto(j, "scan")
            /\ UNCHANGED err
       ELSE /\ err' = [err EXCEPT ![j] = "stream logs"]
            /\ Goto(j, "error")
            /\ UNCHANGED read
  /\ Emit(j, << Event("ContainerWait", i[j], Exit(0)), Call(j, "ContainerLogs") >>)
  /\ UNCHANGED << alive, fatal, storeVars, engineVars, config, i, statusCode,
                  status, dispatched >>

\* DuckCI.streamLogs, the ContainerLogs call that opens the stream.
streamLogs(j) ==
  /\ alive /\ pc[j] = "streamLogs"
  /\ \E ok \in BOOLEAN :
       IF ok
       THEN /\ read' = [read EXCEPT ![j] = 0]
            /\ Goto(j, "scan")
            /\ UNCHANGED err
       ELSE /\ err' = [err EXCEPT ![j] = "stream logs"]
            /\ Goto(j, "error")
            /\ UNCHANGED read
  /\ Emit(j, << Call(j, "ContainerLogs") >>)
  /\ UNCHANGED << alive, fatal, storeVars, engineVars, config, i, statusCode,
                  status, dispatched >>

\* DuckCI.streamLogs, one turn of `for scanner.Scan()`: a line is pushed to the
\* log, or the stream ends (scanner.Err() nil or not).
scan(j, b) ==
  /\ alive /\ pc[j] = "scan"
  /\ \E res \in { "line", "eof", "error", "fatal" } :
       CASE res = "line" ->
              LET l == Line("output", i[j], ToString(read[j] + 1))
              IN  /\ read[j] < b.lines
                  /\ PushLog(j, l)
                  /\ Emit(j, << Event("PushLog", i[j], l) >>)
                  /\ read' = [read EXCEPT ![j] = @ + 1]
                  /\ UNCHANGED << alive, fatal, projects, jobs, statusLog, engineVars,
                                  pc, config, i, statusCode, err, status, dispatched >>
         [] res = "eof" ->
              /\ Goto(j, "waitForContainer")
              /\ UNCHANGED << alive, fatal, storeVars, engineVars, config, i, read,
                              statusCode, err, status, dispatched, trace >>
         [] res = "error" ->
              /\ err' = [err EXCEPT ![j] = "stream logs"]
              /\ Goto(j, "error")
              /\ UNCHANGED << alive, fatal, storeVars, engineVars, config, i, read,
                              statusCode, status, dispatched, trace >>
         [] res = "fatal" -> read[j] < b.lines /\ Fatal(j)

\* waitForContainer whose error is dropped: the step goes on as if the container
\* had exited with code 0.
waitForContainer_ErrorDropped(j) ==
  /\ alive /\ pc[j] = "waitForContainer"
  /\ \/ \E code \in { 0, ExitFail } :
          /\ statusCode' = [statusCode EXCEPT ![j] = code]
          /\ Emit(j, << Event("ContainerWait", i[j], Exit(code)) >>)
     \/ /\ statusCode' = [statusCode EXCEPT ![j] = 0]
        /\ Emit(j, << Call(j, "ContainerWait") >>)
  /\ Goto(j, "ContainerRemove")
  /\ UNCHANGED << alive, fatal, storeVars, engineVars, config, i, read, status,
                  dispatched, err >>

\* waitForContainer that receives from statusCh only: when the engine delivers an
\* error instead, the goroutine blocks for ever.
waitForContainer_StatusOnly(j) ==
  /\ alive /\ pc[j] = "waitForContainer"
  /\ \/ \E code \in { 0, ExitFail } :
          /\ statusCode' = [statusCode EXCEPT ![j] = code]
          /\ Emit(j, << Event("ContainerWait", i[j], Exit(code)) >>)
          /\ Goto(j, "ContainerRemove")
     \/ /\ Emit(j, << Call(j, "ContainerWait") >>)
        /\ Goto(j, "blocked")
        /\ UNCHANGED statusCode
  /\ UNCHANGED << alive, fatal, storeVars, engineVars, config, i, read, status,
                  dispatched, err >>

\* DuckCI.waitForContainer: ContainerWait delivers an error or the exit status.
waitForContainer(j) ==
  /\ alive /\ pc[j] = "waitForContainer"
  /\ \/ \E code \in { 0, ExitFail } :
          /\ statusCode' = [statusCode EXCEPT ![j] = code]
          /\ Emit(j, << Event("ContainerWait", i[j], Exit(code)) >>)
          /\ Goto(j, "ContainerRemove")
          /\ UNCHANGED err
     \/ /\ err' = [err EXCEPT ![j] = "wait for container"]
        /\ Emit(j, << Call(j, "ContainerWait") >>)
        /\ Goto(j, "error")
        /\ UNCHANGED statusCode
  /\ UNCHANGED << alive, fatal, storeVars, engineVars, config, i, read, status,
                  dispatched >>

\* runStep without the test of statusCode: the step succeeds whatever the exit code.
StepOutcome_CodeIgnored(j) ==
  /\ Goto(j, "completed")
  /\ UNCHANGED err

\* runStep after the wait: what the exit code makes of the step.
StepOutcome(j) ==
  IF statusCode[j] # 0
  THEN /\ err' = [err EXCEPT ![j] = "status code"]
       /\ Goto(j, "error")
  ELSE /\ Goto(j, "completed")
       /\ UNCHANGED err

\* runStep that returns the error of ContainerRemove instead of warning about it.
ContainerRemove_ErrorReturned(j) ==
  /\ alive /\ pc[j] = "ContainerRemove"
  /\ \E res \in { "ok", "error" } :
       CASE res = "ok" ->
              /\ containers' = containers \ { << j, i[j] >> }
              /\ StepOutcome(j)
         [] res = "error" ->
              /\ err' = [err EXCEPT ![j] = "remove container"]
              /\ Goto(j, "error")
              /\ UNCHANGED containers
  /\ Emit(j, << Call(j, "ContainerRemove") >>)
  /\ UNCHANGED << alive, fatal, storeVars, images, config, i, read, statusCode,
                  status, dispatched >>

\* DuckCI.runStep: client.ContainerRemove, a warning line when it fails, then the
\* exit code decides the step.
ContainerRemove(j) ==
  /\ alive /\ pc[j] = "ContainerRemove"
  /\ \E res \in { "ok", "error", "fatal" } :
       CASE res = "ok" ->
              /\ containers' = containers \ { << j, i[j] >> }
              /\ Emit(j, << Call(j, "ContainerRemove") >>)
              /\ StepOutcome(j)
              /\ UNCHANGED << alive, fatal, storeVars, images, config, i, read,
                              statusCode, status, dispatched >>
         [] res = "error" ->
              LET l == Line("Warning: Failed to remove container", i[j], "")
              IN  /\ PushLog(j, l)
                  /\ Emit(j, << Call(j, "ContainerRemove"), Event("PushLog", i[j], l) >>)
                  /\ StepOutcome(j)
                  /\ UNCHANGED << alive, fatal, projects, jobs, statusLog, engineVars,
                                  config, i, read, statusCode, status, dispatched >>
         [] res = "fatal" -> Fatal(j)

\* Run after runStep returned nil: PushLog("Step i completed successfully"), next turn.
StepCompleted(j) ==
  /\ alive /\ pc[j] = "completed"
  /\ \E ok \in BOOLEAN :
       IF ok
       THEN LET l == Line("Step completed successfully", i[j], "")
            IN  /\ PushLog(j, l)
                /\ Emit(j, << Event("PushLog", i[j], l) >>)
                /\ i' = [i EXCEPT ![j] = @ + 1]
                /\ Goto(j, "loop")
                /\ UNCHANGED << alive, fatal, projects, jobs, statusLog, engineVars,
                                config, read, statusCode, err, status, dispatched >>
       ELSE Fatal(j)

\* The line Run pushes for an error: "Failed to clone repository", "Failed to load
\* configuration", "Failed to create Docker client" or "Step i failed".
FailureLine(j) ==
  CASE err[j] = "clone" -> Line("Failed to clone repository", 0, err[j])
    [] err[j] \in { "read config", "parse config" } ->
         Line("Failed to load configuration", 0, err[j])
    [] err[j] = "docker client" -> Line("Failed to create Docker client", 0, err[j])
    [] OTHER -> Line("Step failed", i[j], err[j])

\* Run on an error of runStep, without the PushLog of the failure line.
RunError_NoLine(j) ==
  /\ alive /\ pc[j] = "error"
  /\ \E ok \in BOOLEAN :
       IF ok
       THEN /\ IF err[j] \in { "clone", "read config", "parse config", "docker client" }
               THEN /\ PushLog(j, FailureLine(j))
                    /\ Emit(j, << Event("PushLog", i[j], FailureLine(j)) >>)
               ELSE UNCHANGED << logs, trace >>
            /\ status' = [status EXCEPT ![j] = Failed]
            /\ Goto(j, "updateJobStatus")
            /\ UNCHANGED << alive, fatal, projects, jobs, statusLog, engineVars,
                            config, i, read, statusCode, err, dispatched >>
       ELSE Fatal(j)

\* Run on an error, without the return after a failed step: the line is pushed and
\* the loop goes on.
RunError_NoReturn(j) ==
  /\ alive /\ pc[j] = "error"
  /\ \E ok \in BOOLEAN :
       IF ok
       THEN /\ PushLog(j, FailureLine(j))
            /\ Emit(j, << Event("PushLog", i[j], FailureLine(j)) >>)
            /\ IF err[j] \in { "clone", "read config", "parse config", "docker client" }
               THEN /\ status' = [status EXCEPT ![j] = Failed]
                    /\ Goto(j, "updateJobStatus")
                    /\ UNCHANGED i
               ELSE /\ i' = [i EXCEPT ![j] = @ + 1]
                    /\ Goto(j, "loop")
                    /\ UNCHANGED status
            /\ UNCHANGED << alive, fatal, projects, jobs, statusLog, engineVars,
                            config, read, statusCode, err, dispatched >>
       ELSE Fatal(j)

\* Run on an error: push the failure line, then updateJobStatus(job, -1) and return.
RunError(j) ==
  /\ alive /\ pc[j] = "error"
  /\ \E ok \in BOOLEAN :
       IF ok
       THEN /\ PushLog(j, FailureLine(j))
            /\ Emit(j, << Event("PushLog", i[j], FailureLine(j)) >>)
            /\ status' = [status EXCEPT ![j] = Failed]
            /\ Goto(j, "updateJobStatus")
            /\ UNCHANGED << alive, fatal, projects, jobs, statusLog, engineVars,
                            config, i, read, statusCode, err, dispatched >>
       ELSE Fatal(j)

\* Run after the loop, taking a pipeline without steps for a failure.
RunCompleted_EmptyFails(j) ==
  /\ alive /\ pc[j] = "loop" /\ i[j] > Len(config[j])
  /\ \E ok \in BOOLEAN :
       IF ok
       THEN LET l == Line("Job completed successfully", 0, "")
            IN  /\ PushLog(j, l)
                /\ Emit(j, << Event("PushLog", 0, l) >>)
                /\ status' = [status EXCEPT ![j] =
                                IF Len(config[j]) = 0 THEN Failed ELSE Succeeded]
                /\ Goto(j, "updateJobStatus")
                /\ UNCHANGED << alive, fatal, projects, jobs, statusLog, engineVars,
                                config, i, read, statusCode, err, dispatched >>
       ELSE Fatal(j)

\* Run after the loop: PushLog("Job completed successfully"), then updateJobStatus(job, 0).
RunCompleted(j) ==
  /\ alive /\ pc[j] = "loop" /\ i[j] > Len(config[j])
  /\ \E ok \in BOOLEAN :
       IF ok
       THEN LET l == Line("Job completed successfully", 0, "")
            IN  /\ PushLog(j, l)
                /\ Emit(j, << Event("PushLog", 0, l) >>)
                /\ status' = [status EXCEPT ![j] = Succeeded]
                /\ Goto(j, "updateJobStatus")
                /\ UNCHANGED << alive, fatal, projects, jobs, statusLog, engineVars,
                                config, i, read, statusCode, err, dispatched >>
       ELSE Fatal(j)

\* The status write followed by one more line pushed to the log.
RunStatus_ThenLog(j) ==
  /\ alive /\ pc[j] = "updateJobStatus"
  /\ \E ok \in BOOLEAN :
       IF ok
       THEN LET l == Line("Job finished", 0, "")
            IN  /\ updateJobStatus(j, status[j])
                /\ PushLog(j, l)
                /\ Emit(j, << Event("updateJobStatus", status[j], NoLine),
                              Event("PushLog", 0, l) >>)
                /\ Goto(j, "done")
                /\ UNCHANGED << alive, fatal, projects, engineVars, config, i, read,
                                statusCode, err, status, dispatched >>
       ELSE Fatal(j)

\* DuckCI.updateJobStatus, the last statement of every path of Run.
RunStatus(j) ==
  /\ alive /\ pc[j] = "updateJobStatus"
  /\ \E ok \in BOOLEAN :
       IF ok
       THEN /\ updateJobStatus(j, status[j])
            /\ Emit(j, << Event("updateJobStatus", status[j], NoLine) >>)
            /\ Goto(j, "done")
            /\ UNCHANGED << alive, fatal, projects, logs, engineVars, config, i, read,
                            statusCode, err, status, dispatched >>
       ELSE Fatal(j)

\* One step of the Run goroutine of job j.
Run(j, b) ==
  \/ RunStart(j)
  \/ cloneRepository(j)
  \/ loadConfig(j, b)
  \/ NewClient(j)
  \/ StartStep(j)
  \/ ensureImage(j)
  \/ createAndStartContainer(j)
  \/ streamLogs(j)
  \/ scan(j, b)
  \/ waitForContainer(j)
  \/ ContainerRemove(j)
  \/ StepCompleted(j)
  \/ RunError(j)
  \/ RunCompleted(j)
  \/ RunStatus(j)

\* The server with the bounds b.
Serve(b) ==
  \/ ProjectView
  \/ \E p \in ProjectIds : TaskView(p, b)
  \/ \E j \in 1..b.jobs : Run(j, b)

Next == Serve(Conc)
NextSolo == Serve(Solo)

Spec == Init /\ [][Next]_vars
SpecSolo == Init /\ [][NextSolo]_vars

\* The server while every write to the store succeeds (no log.Fatal), each goroutine
\* being scheduled and each external call returning: a run that can take a step
\* eventually takes one.
NextLive ==
  \/ ProjectView
  \/ \E p \in ProjectIds : TaskView(p, Conc)
  \/ \E j \in JobIds : Run(j, Conc) /\ alive'
SpecLive ==
  /\ Init
  /\ [][NextLive]_vars
  /\ \A j \in JobIds : WF_vars(Run(j, Conc) /\ alive')

\* ---- what the claims speak of ----

\* Job rows of table jobs.
Created == 1..Len(jobs)

\* The two values the store knows as the end of a run.
IsTerminal(s) == s \in { Succeeded, Failed }

\* The jobs a reader finds with a terminal status.
ReadsTerminal(j) == getJobById(j).found /\ IsTerminal(getJobById(j).status)

\* The store writes of the run of job j, in order.
Writes(j) == SelectSeq(trace[j], LAMBDA e : e.op \in { "PushLog", "updateJobStatus" })

\* The lines the run of job j pushed, in order.
Emitted(j) ==
  LET pushes == SelectSeq(trace[j], LAMBDA e : e.op = "PushLog")
  IN  [k \in 1..Len(pushes) |-> pushes[k].line]

\* How many calls of op the run of job j made for step n.
Calls(j, op, n) == Cardinality({ k \in 1..Len(trace[j]) : trace[j][k].op = op /\ trace[j][k].n = n })

\* How many lines with this text the store holds for job j.
Lines(j, text) ==
  LET rows == getLogsByJobId(j)
  IN  Cardinality({ k \in 1..Len(rows) : rows[k].text = text })

StepErrors == { "ensure image", "create and start container", "stream logs",
                "wait for container", "status code" }
GatewayOps == { "ImageList", "ImagePull", "ContainerCreate", "ContainerStart",
                "ContainerLogs", "ContainerWait", "ContainerRemove" }

\* runStep for step n of job j has returned.
StepReturned(j, n) ==
  \/ n < i[j]
  \/ n = i[j] /\ pc[j] \in { "error", "completed", "updateJobStatus", "done" }

\* C1: the statuses persisted for a job are Pending at creation, then at most one
\* terminal value: never two terminal values, and no write after a terminal one.
C1_StatusSequence ==
  \A j \in JobIds :
    LET s == statusLog[j]
    IN  Len(s) > 0 =>
          /\ s[1] = Pending
          /\ Cardinality({ k \in 1..Len(s) : IsTerminal(s[k]) }) <= 1
          /\ \A k \in 1..(Len(s) - 1) : ~IsTerminal(s[k])

\* C2: once a reader finds job j with a terminal status, no log line is written for
\* j any more.
C2_TerminalAfterLogs ==
  [][ \A j \in JobIds :
        ReadsTerminal(j) =>
          SelectSeq(logs', LAMBDA r : r.job_id = j) = SelectSeq(logs, LAMBDA r : r.job_id = j)
    ]_vars

\* C3: a run that has returned made exactly one status write, and it is the last
\* of its writes to the store.
C3_StatusLastOnce ==
  \A j \in JobIds :
    pc[j] = "done" =>
      LET w == Writes(j)
      IN  /\ Len(w) > 0
          /\ w[Len(w)].op = "updateJobStatus"
          /\ Cardinality({ k \in 1..Len(w) : w[k].op = "updateJobStatus" }) = 1
          /\ Len(statusLog[j]) = 2

\* A returned run whose step 2 exited non-zero, after output lines were pushed.
C3_Witness ==
  \E j \in JobIds :
    /\ pc[j] = "done" /\ err[j] = "status code" /\ i[j] = 2
    /\ Lines(j, "output") > 0

\* C4: when step k is the first to fail, the log holds exactly k "Starting step"
\* lines, no gateway call was made for a later step, and the status is Failed.
C4_FailFast ==
  \A j \in JobIds :
    (pc[j] = "done" /\ err[j] \in StepErrors) =>
      /\ Lines(j, "Starting step") = i[j]
      /\ \A k \in 1..Len(trace[j]) : trace[j][k].op \in GatewayOps => trace[j][k].n <= i[j]
      /\ \A c \in containers : c[1] = j => c[2] <= i[j]
      /\ jobs[j].status = Failed

\* A returned run of a two-step manifest whose step 1 failed.
C4_Witness ==
  \E j \in JobIds :
    pc[j] = "done" /\ err[j] \in StepErrors /\ i[j] = 1 /\ Len(config[j]) = 2

\* C5: once runStep has returned, removal was attempted for every container it
\* created.
C5_RemoveAlways ==
  \A c \in containers :
    StepReturned(c[1], c[2]) => Calls(c[1], "ContainerRemove", c[2]) > 0

\* C6: until its run has written a status, a job does not read as Failed.
C6_PendingNotFailed ==
  \A j \in Created : pc[j] # "done" => jobs[j].status # Failed

\* C7: after a fatal error in one run, every other unfinished run can still take
\* a step and the server still accepts a job creation.
C7_FailureIsolation ==
  fatal # 0 =>
    /\ \A k \in JobIds \ { fatal } : pc[k] \notin { "idle", "done" } => ENABLED Run(k, Conc)
    /\ Len(jobs) < MaxJobs => ENABLED (\E p \in ProjectIds : TaskView(p, Conc))

\* C8: the log entries stored for a job, in store order, are the lines its run
\* pushed, in the order it pushed them.
C8_LogOrder ==
  \A j \in JobIds : getLogsByJobId(j) = Emitted(j)

\* The rows of two runs alternate in table logs.
C8_Witness ==
  \E a, b, c \in 1..Len(logs) :
    /\ a < b /\ b < c
    /\ logs[a].job_id = 1 /\ logs[b].job_id = 2 /\ logs[c].job_id = 1
    /\ pc[1] = "done" /\ pc[2] = "done"

\* C9: when the clone fails, the run pushes the clone-failure line, sets Failed,
\* never loads the config and creates no container.
C9_FetchFailure ==
  \A j \in JobIds :
    (pc[j] = "done" /\ err[j] = "clone") =>
      /\ Lines(j, "Failed to clone repository") = 1
      /\ jobs[j].status = Failed
      /\ Calls(j, "loadConfig", 0) = 0
      /\ \A n \in 0..MaxSteps + 1 : Calls(j, "ContainerCreate", n) = 0
      /\ \A c \in containers : c[1] # j

\* A returned run whose clone failed.
C9_Witness ==
  \E j \in JobIds : pc[j] = "done" /\ err[j] = "clone" /\ Len(getLogsByJobId(j)) = 2

\* C10: every job row has exactly one run dispatched for it.
C10_OneRunPerJob ==
  \A j \in Created : dispatched[j] = 1

\* The text of the failure line Run pushes for each error.
FailureText(e) ==
  CASE e = "clone" -> "Failed to clone repository"
    [] e \in { "read config", "parse config" } -> "Failed to load configuration"
    [] e = "docker client" -> "Failed to create Docker client"
    [] OTHER -> "Step failed"

\* C11: when a run writes Failed, the write before it in the same run pushed the
\* failure line of the error that ended the run, and the store holds that line.
C11_FailureLogged ==
  \A j \in JobIds :
    LET w == Writes(j)
    IN  \A k \in 1..Len(w) :
          (w[k].op = "updateJobStatus" /\ w[k].n = Failed) =>
            /\ k > 1
            /\ w[k - 1].op = "PushLog"
            /\ w[k - 1].line.text = FailureText(err[j])
            /\ w[k - 1].line.arg = err[j]
            /\ err[j] # ""
            /\ \E r \in 1..Len(logs) : logs[r] = [job_id |-> j, log |-> w[k - 1].line]

\* A returned run that failed because the container could not be waited for.
C11_Witness ==
  \E j \in JobIds :
    pc[j] = "done" /\ jobs[j].status = Failed /\ err[j] = "wait for container"

\* C12: no image is ensured and no container is created for a step whose image
\* or command is empty; such a manifest ends the run at loadConfig.
C12_EmptyFieldsRejected ==
  \A j \in JobIds :
    \A k \in 1..Len(trace[j]) :
      trace[j][k].op \in { "ImageList", "ImagePull", "ContainerCreate" } =>
        /\ config[j][trace[j][k].n].image # ""
        /\ config[j][trace[j][k].n].runs # ""

\* C13: while store writes succeed and external calls return, every dispatched run
\* eventually writes a terminal status for its job, whatever the other runs do:
\* from some point on, every run that was dispatched has returned after writing
\* one (a dispatch and a status write are never undone).
C13_RunTerminates ==
  <>[](\A j \in JobIds :
         dispatched[j] = 1 =>
           (pc[j] = "done" /\ Len(statusLog[j]) = 2 /\ IsTerminal(jobs[j].status)))

\* Two runs have returned, one Succeeded and one Failed, their log rows alternating.
C13_Witness ==
  /\ pc[1] = "done" /\ pc[2] = "done"
  /\ jobs[1].status = Succeeded /\ jobs[2].status = Failed
  /\ \E a, b, c \in 1..Len(logs) :
       a < b /\ b < c /\ logs[a].job_id = 2 /\ logs[b].job_id = 1 /\ logs[c].job_id = 2


\* The position in the trace of job j of the first call of op for step n (0 if none).
FirstCall(j, op, n) ==
  LET at == { k \in 1..Len(trace[j]) : trace[j][k].op = op /\ trace[j][k].n = n }
  IN  IF at = {} THEN 0 ELSE CHOOSE k \in at : \A m \in at : k <= m

\* ContainerWait delivered exit code 0 for step n of job j.
ExitedZero(j, n) ==
  \E k \in 1..Len(trace[j]) :
    /\ trace[j][k].op = "ContainerWait" /\ trace[j][k].n = n
    /\ trace[j][k].line = Exit(0)

\* The containers job j created for which no removal was attempted.
Unremoved(j) == { c \in containers : c[1] = j /\ Calls(j, "ContainerRemove", c[2]) = 0 }

\* C14: the image ensure and the container create of step n + 1 come after step
\* n's container exited with code 0 and its removal was attempted, and a run never
\* has two containers for which removal was not attempted.
C14_Sequential ==
  \A j \in JobIds :
    LET calls == SelectSeq(trace[j], LAMBDA e : e.op \in GatewayOps)
    IN  /\ \A k \in 1..Len(trace[j]) :
             (trace[j][k].op \in { "ImageList", "ContainerCreate" } /\ trace[j][k].n > 1) =>
               LET n == trace[j][k].n - 1
                   removed == FirstCall(j, "ContainerRemove", n)
               IN  /\ ExitedZero(j, n)
                   /\ removed > 0
                   /\ removed < k
                   /\ FirstCall(j, "ContainerWait", n) < removed
        /\ \A k \in 1..(Len(calls) - 1) : calls[k].n <= calls[k + 1].n
        /\ Cardinality(Unremoved(j)) <= 1

\* Step 2 has created its container after step 1's removal failed: both exist.
C14_Witness ==
  \E j \in JobIds : { << j, 1 >>, << j, 2 >> } \subseteq containers

\* The calls a run makes for a step that succeeds.
StepCalls == { "ImageList", "ContainerCreate", "ContainerStart", "ContainerLogs",
               "ContainerWait", "ContainerRemove" }

\* C15: a returned run wrote Succeeded exactly when clone, config load, client
\* creation and every configured step succeeded (each call made, exit code 0);
\* otherwise it wrote Failed.
C15_SucceededIff ==
  \A j \in JobIds :
    pc[j] = "done" =>
      /\ jobs[j].status \in { Succeeded, Failed }
      /\ jobs[j].status = Succeeded <=>
           /\ err[j] = ""
           /\ Calls(j, "git clone", 0) = 1
           /\ Calls(j, "loadConfig", 0) = 1
           /\ Calls(j, "NewClient", 0) = 1
           /\ \A n \in 1..Len(config[j]) :
                /\ \A op \in StepCalls : Calls(j, op, n) = 1
                /\ ExitedZero(j, n)
      /\ jobs[j].status = Failed <=> err[j] # ""

\* A returned run of a two-step manifest that succeeded.
C15_Witness ==
  \E j \in JobIds :
    pc[j] = "done" /\ jobs[j].status = Succeeded /\ Len(config[j]) = 2

\* The line a run pushes once step n is decided.
IsVerdict(l, n) == l.n = n /\ l.text \in { "Step completed successfully", "Step failed" }

\* C16: after a ContainerRemove that failed (the container is still there), a
\* warning line is pushed and the step is decided by the exit code alone: code 0,
\* the step is completed and the next step starts; code non-zero, the step fails
\* for its status code.
C16_RemoveFailureHarmless ==
  \A j \in JobIds :
    \A k \in 1..Len(trace[j]) :
      LET n == trace[j][k].n
          len == Len(trace[j])
      IN  (trace[j][k].op = "ContainerRemove" /\ << j, n >> \in containers) =>
            /\ k < len
            /\ trace[j][k + 1].line = Line("Warning: Failed to remove container", n, "")
            /\ k + 1 = len =>
                 /\ i[j] = n
                 /\ pc[j] = IF ExitedZero(j, n) THEN "completed" ELSE "error"
                 /\ ~ExitedZero(j, n) => err[j] = "status code"
            /\ k + 1 < len =>
                 trace[j][k + 2].line =
                   IF ExitedZero(j, n)
                   THEN Line("Step completed successfully", n, "")
                   ELSE Line("Step failed", n, "status code")
            /\ (k + 2 < len /\ ExitedZero(j, n) /\ n < Len(config[j])) =>
                 trace[j][k + 3].line = Line("Starting step", n + 1, config[j][n + 1].name)

\* A run went on to step 2 after the removal of step 1's container failed, and
\* another removal failed for a container that exited non-zero.
C16_Witness ==
  \E j \in JobIds :
    /\ pc[j] = "done" /\ << j, 1 >> \in containers /\ << j, 2 >> \in containers
    /\ ExitedZero(j, 1) /\ ~ExitedZero(j, 2)
    /\ Lines(j, "Warning: Failed to remove container") = 2
    /\ err[j] = "status code"

\* C17: the output lines of a step are in the store before its container is waited
\* for and before the line that decides the step: in the trace of a run, no
\* output line of step n follows the ContainerWait or the verdict line of step n.
C17_OutputStreamed ==
  \A j \in JobIds :
    /\ \A m \in 1..Len(trace[j]) :
         LET n == trace[j][m].n
         IN  (\/ trace[j][m].op = "ContainerWait"
              \/ trace[j][m].op = "PushLog" /\ IsVerdict(trace[j][m].line, n)) =>
               \A k \in (m + 1)..Len(trace[j]) :
                 ~(trace[j][k].line.text = "output" /\ trace[j][k].n = n)
    /\ Lines(j, "output") =
         Cardinality({ k \in 1..Len(trace[j]) : trace[j][k].line.text = "output" })

\* The store holds an output line of a step whose container is still being read
\* and was not waited for.
C17_Witness ==
  \E j \in JobIds :
    /\ pc[j] = "scan" /\ read[j] >= 1
    /\ Calls(j, "ContainerWait", i[j]) = 0
    /\ \E r \in 1..Len(logs) : logs[r] = [job_id |-> j, log |-> Line("output", i[j], "1")]

\* C18: a run clones and loads the config at most once, and calls each gateway
\* operation at most once per step.
C18_NoRetry ==
  \A j \in JobIds :
    LET calls == SelectSeq(trace[j], LAMBDA e : e.op # "PushLog" /\ e.op # "updateJobStatus")
    IN  /\ \A a, b \in 1..Len(calls) :
             a < b => ~(calls[a].op = calls[b].op /\ calls[a].n = calls[b].n)
        /\ \A k \in 1..Len(calls) :
             IF calls[k].op \in GatewayOps
             THEN calls[k].n \in 1..Len(config[j])
             ELSE calls[k].n = 0

\* A returned run whose image pull failed: it was called once.
C18_Witness ==
  \E j \in JobIds :
    pc[j] = "done" /\ err[j] = "ensure image" /\ Calls(j, "ImagePull", i[j]) = 1

\* The rows of table logs keyed by job j.
LogRows(tbl, j) == SelectSeq(tbl, LAMBDA r : r.job_id = j)

\* C19: a step that is not a step of job j's run leaves the rows keyed by j alone:
\* its log rows and, once its job row exists, its status.
C19_OwnRowsOnly ==
  [][ \A j \in JobIds :
        trace'[j] = trace[j] =>
          /\ LogRows(logs', j) = LogRows(logs, j)
          /\ j \in DOMAIN jobs => (jobs'[j] = jobs[j] /\ statusLog'[j] = statusLog[j])
    ]_vars

\* Two runs have returned with different statuses, each with its own log rows.
C19_Witness ==
  /\ pc[1] = "done" /\ pc[2] = "done"
  /\ jobs[1].status = Failed /\ jobs[2].status = Succeeded
  /\ Len(LogRows(logs, 1)) >= 2 /\ Len(LogRows(logs, 2)) >= 2
  /\ logs[1].job_id # logs[2].job_id

\* A returned run whose manifest was parsed and holds no step.
ZeroSteps(j) ==
  /\ pc[j] = "done"
  /\ Calls(j, "loadConfig", 0) = 1
  /\ err[j] \notin { "read config", "parse config" }
  /\ config[j] = << >>

\* What C20 says of such a run: no "Starting step" line, no container, the
\* completion line and status Succeeded.
EmptyPipelineSucceeded(j) ==
  /\ Lines(j, "Starting step") = 0
  /\ \A n \in 0..MaxSteps : Calls(j, "ContainerCreate", n) = 0
  /\ \A c \in containers : c[1] # j
  /\ Lines(j, "Job completed successfully") = 1
  /\ jobs[j].status = Succeeded

\* C20 as stated: every run whose manifest parses to zero steps succeeds so.
C20_ZeroSteps ==
  \A j \in JobIds : ZeroSteps(j) => EmptyPipelineSucceeded(j)

\* C20, amended: every run whose manifest parses to zero steps and whose docker
\* client is created succeeds so.
C20_ZeroStepsWithClient ==
  \A j \in JobIds : (ZeroSteps(j) /\ err[j] # "docker client") => EmptyPipelineSucceeded(j)

\* A returned run with an empty manifest and a docker client.
C20_Witness ==
  \E j \in JobIds : ZeroSteps(j) /\ err[j] = "" /\ Len(getLogsByJobId(j)) = 3
====
